---- MODULE Spec2Model ----
\* A model of the Github Classroom grading CLI (src/main.go).
\*
\* Strings are tuples of one-character strings, so that concatenation,
\* substring search and replacement are computed and not assumed.
\* A run is a sequential state machine: pc is the position in main and in the
\* functions it calls; trace records every interaction with the outside world
\* (remote API calls, browser launches, terminal reads, log writes, prints).
EXTENDS Integers, Sequences, FiniteSets, TLC

VARIABLES
    pc,            \* position of the run
    flags,         \* parsed command line: p, n, u, f, a
    goos,          \* runtime.GOOS
    roster,        \* rows of the CSV file GITHUB_USERNAME_MAP points to
    srv,           \* the organization on the server: repositories, page size
    name_username, \* map built by ReadUsernameMap
    username_name, \* map built by ReadUsernameMap
    allRepos,      \* OrgRepos: accumulator
    optPage,       \* OrgRepos: opt.Page
    orgErr,        \* OrgRepos: the error it returned
    repos,         \* AllStudents: filtered repositories
    idx,           \* AllStudents: position of the range loop
    sess,          \* HandleRepo arguments and locals of the current session
    trace,         \* interactions with the outside world, in order
    err,           \* the error main received from the flow ("nil": none)
    call,          \* arguments of a function applied on its own
    out            \* its result

vars == <<pc, flags, goos, roster, srv, name_username, username_name, allRepos,
          optPage, orgErr, repos, idx, sess, trace, err, call, out>>

-----------------------------------------------------------------------------
\* Bounds of the model.

\* longest listing of the organization
MaxRepos == 3
\* largest page the server hands out
MaxPageSize == 2
\* longest string given to a function applied on its own
MaxLen == 3
\* longest prefix given to a function applied on its own
MaxPrefix == 2
\* longest repository list given to the filter applied on its own
MaxList == 3
\* most rows of a roster loaded on its own
MaxRows == 2
\* most fields of a roster row
MaxFields == 2

\* ListOptions{PerPage: 100}
PerPage == 100

-----------------------------------------------------------------------------
\* Strings.

Empty == << >>
Chars == {"h", "-", "a"}

RECURSIVE StringsUpTo(_)
StringsUpTo(n) ==
    IF n = 0 THEN {Empty}
    ELSE LET shorter == StringsUpTo(n - 1)
         IN  shorter \cup {Append(s, c) : s \in {t \in shorter : Len(t) = n - 1}, c \in Chars}

\* strings.Index, 1-based; 0 when sub does not occur in s
Index(s, sub) ==
    LET hits == {i \in 1..(Len(s) - Len(sub) + 1) : SubSeq(s, i, i + Len(sub) - 1) = sub}
    IN  IF hits = {} THEN 0 ELSE CHOOSE i \in hits : \A j \in hits : i <= j

\* strings.Contains
Contains(s, sub) == Index(s, sub) # 0

\* strings.HasPrefix
HasPrefix(s, p) == Len(p) <= Len(s) /\ SubSeq(s, 1, Len(p)) = p

\* strings.Replace(s, old, "", 1): the first occurrence of old removed
RemoveFirst(s, old) ==
    LET i == Index(s, old)
    IN  IF i = 0 THEN s
        ELSE SubSeq(s, 1, i - 1) \o SubSeq(s, i + Len(old), Len(s))

\* strings.Replace(s, "\n", "", -1): every newline removed
RemoveNewlines(s) == SelectSeq(s, LAMBDA c : c # "\n")

-----------------------------------------------------------------------------
\* Repositories and naming.

\* a *github.Repository as the server returns it
Repository(n) == [Name |-> n, HTMLURL |-> <<"/">> \o n]

RepoUrl(repo) == repo.HTMLURL

\* the arguments of Sprintf the other way round
RepoNameUserFirst(pref, user) == user \o pref

RepoNameByPrefixAndUser(pref, user) == pref \o user

UsernameFromRepo(repo, pref) == RemoveFirst(repo.Name, pref)

\* a leading prefix demanded where the code asks for a substring
FilterByLeadingPrefix(rs, pref) == SelectSeq(rs, LAMBDA r : HasPrefix(r.Name, pref))

RECURSIVE FilterFrom(_, _, _, _)
FilterFrom(rs, pref, i, prefRepos) ==
    IF i > Len(rs) THEN prefRepos
    ELSE FilterFrom(rs, pref, i + 1,
                    IF Contains(rs[i].Name, pref) THEN Append(prefRepos, rs[i])
                    ELSE prefRepos)

FilterReposByPref(rs, pref) == FilterFrom(rs, pref, 1, << >>)

-----------------------------------------------------------------------------
\* The roster.

EmptyMap == [k \in {} |-> Empty]

\* a copy-and-paste slip: the second map filled like the first
RECURSIVE ReadRowsSlip(_, _, _, _)
ReadRowsSlip(rows, i, nu, un) ==
    IF i > Len(rows)
    THEN [name_username |-> nu, username_name |-> un, err |-> "nil"]
    ELSE IF Len(rows[i]) # Len(rows[1])
    THEN [name_username |-> [k \in {} |-> Empty], username_name |-> [k \in {} |-> Empty],
          err |-> "csv.ErrFieldCount"]
    ELSE IF Len(rows[i]) < 2
    THEN [name_username |-> [k \in {} |-> Empty], username_name |-> [k \in {} |-> Empty],
          err |-> "panic"]
    ELSE ReadRowsSlip(rows, i + 1,
                      (rows[i][1] :> rows[i][2]) @@ nu,
                      (rows[i][1] :> rows[i][2]) @@ un)

\* the loop of ReadUsernameMap over the records csv.Reader yields; the reader
\* (FieldsPerRecord = 0) rejects a record whose field count differs from the
\* first record's; row[1] of a one-field record is an index out of range
RECURSIVE ReadRows(_, _, _, _)
ReadRows(rows, i, nu, un) ==
    IF i > Len(rows)
    THEN [name_username |-> nu, username_name |-> un, err |-> "nil"]
    ELSE IF Len(rows[i]) # Len(rows[1])
    THEN [name_username |-> EmptyMap, username_name |-> EmptyMap, err |-> "csv.ErrFieldCount"]
    ELSE IF Len(rows[i]) < 2
    THEN [name_username |-> EmptyMap, username_name |-> EmptyMap, err |-> "panic"]
    ELSE ReadRows(rows, i + 1,
                  (rows[i][1] :> rows[i][2]) @@ nu,
                  (rows[i][2] :> rows[i][1]) @@ un)

ReadUsernameMap(rows) == ReadRows(rows, 1, EmptyMap, EmptyMap)

-----------------------------------------------------------------------------
\* The outside world.

\* GITHUB_CLASSROOM_ORG
OrgName == <<"o">>

\* the title HandleIssueFeedback gives every issue
Header == <<"[FEEDBACK]">>

NameNotFound == <<"[NAME NOT FOUND]">>

NoEvent == [op |-> "", org |-> Empty, repo |-> Empty, title |-> Empty, body |-> Empty,
            name |-> Empty, username |-> Empty, page |-> 0, ok |-> TRUE, msg |-> ""]

Println(m) == [NoEvent EXCEPT !.op = "Print", !.msg = m]

\* the operating systems StartBrowser has a case for
BrowserGOOS == {"linux", "windows", "darwin"}

Min(a, b) == IF a <= b THEN a ELSE b

\* the server's answer to Repositories.ListByOrg with opt.Page = page
PageSize == Min(PerPage, srv.pageSize)
NumPages == IF Len(srv.repos) = 0 THEN 1
            ELSE (Len(srv.repos) + PageSize - 1) \div PageSize
PageNo(page) == IF page = 0 THEN 1 ELSE page
PageRepos(page) ==
    SubSeq(srv.repos, (PageNo(page) - 1) * PageSize + 1,
           Min(PageNo(page) * PageSize, Len(srv.repos)))
NextPage(page) == IF PageNo(page) < NumPages THEN PageNo(page) + 1 ELSE 0

\* the settings and files main needs, in the order it asks for them; each may be missing
SetupBeforeRoster == {"godotenv.Load", "GRADING_LOGGING_DEST", "os.OpenFile",
                      "GITHUB_USERNAME_MAP", "os.Open"}
SetupAfterRoster == {"GITHUB_CLASSROOM_ORG", "GITHUB_AUTH_TOKEN"}

\* what bufio.Reader.ReadString('\n') can give: an error, or a line with its newline
Lines == {<<"\n">>, <<"a", "\n">>}
ReadOutcomes == {[err |-> TRUE, line |-> Empty]} \cup {[err |-> FALSE, line |-> l] : l \in Lines}

\* GatherInput on what the reader gave
GatherInput(r) ==
    IF r.err THEN [in |-> Empty, err |-> "InputError"]
    ELSE [in |-> RemoveNewlines(r.line), err |-> "nil"]

NoSession == [repo |-> Repository(Empty), username |-> Empty, name |-> Empty, fback |-> Empty]

\* main prints the error the flow returned
PrintErr(e) == IF e = "nil" THEN << >> ELSE <<Println(e)>>

-----------------------------------------------------------------------------
\* Inputs of a run.

Prefixes == {Empty, <<"h", "-">>}
StudentNames == {<<"A">>}
Usernames == {<<"a">>}
\* a repository named prefix+username, one with the prefix inside, one without
\* it, one named as the prefix
RepoNames == {<<"h", "-", "a">>, <<"a", "h", "-">>, <<"a">>, <<"h", "-">>}
\* no row; one student; a row of one field; a row whose name field is empty
Rosters == {<< >>, << <<<<"A">>, <<"a">>>> >>, << <<<<"A">>>> >>, << <<Empty, <<"a">>>> >>}
GoosValues == {"linux", "plan9"}

RECURSIVE ListsUpTo(_, _)
\* the lists of at most n distinct elements of S
ListsUpTo(S, n) ==
    IF n = 0 THEN {<< >>}
    ELSE LET shorter == ListsUpTo(S, n - 1)
         IN  shorter \cup {Append(l, x) : l \in {t \in shorter : Len(t) = n - 1}, x \in S}

Distinct(l) == \A i, j \in 1..Len(l) : l[i] = l[j] => i = j

\* AllStudents takes neither name nor username: under -a the two flags are read
\* by main's both-given check alone, so they are given together or not at all
GivenTogether(fl) == fl.a => (fl.n = Empty <=> fl.u = Empty)

Init ==
    /\ pc = "main"
    /\ flags \in {fl \in [p : Prefixes, n : StudentNames \cup {Empty},
                            u : Usernames \cup {Empty}, f : BOOLEAN, a : BOOLEAN] :
                     GivenTogether(fl)}
    /\ goos \in GoosValues
    /\ roster \in Rosters
    /\ srv \in [repos : {l \in ListsUpTo(RepoNames, MaxRepos) : Distinct(l)},
                pageSize : 1..MaxPageSize]
    /\ name_username = EmptyMap
    /\ username_name = EmptyMap
    /\ allRepos = << >>
    /\ optPage = 0
    /\ orgErr = "nil"
    /\ repos = << >>
    /\ idx = 0
    /\ sess = NoSession
    /\ trace = << >>
    /\ err = "nil"
    /\ call = << >>
    /\ out = << >>

-----------------------------------------------------------------------------
\* main: the flag checks, the setup, the dispatch.

\* a slip in the comparison: -u compared the wrong way round
BothGivenSlip(fl) == fl.n # Empty /\ fl.u = Empty

\* main: name != "" && username != ""
BothGiven(fl) == fl.n # Empty /\ fl.u # Empty

\* main: the prefix check prints its message; no return follows it
PrefixMessage(fl) ==
    IF fl.p = Empty
    THEN <<Println("Did not provide prefix. Cannot proceed without -p flag.")>>
    ELSE << >>

Main ==
    /\ pc = "main"
    /\ UNCHANGED <<flags, goos, roster, srv, allRepos, optPage, orgErr, repos, idx, sess,
                   err, call, out>>
    /\ IF BothGiven(flags)
       THEN /\ trace' = Append(trace,
                   Println("Using -n and -u together is not allowed. Please only specify one."))
            /\ pc' = "done"
            /\ UNCHANGED <<name_username, username_name>>
       ELSE \E missing \in SetupBeforeRoster \cup SetupAfterRoster \cup {"none"} :
            LET m == ReadUsernameMap(roster)
                sofar == trace \o PrefixMessage(flags)
            IN  IF missing \in SetupBeforeRoster
                THEN /\ trace' = Append(sofar, Println(missing))
                     /\ pc' = "done"
                     /\ UNCHANGED <<name_username, username_name>>
                ELSE IF m.err = "panic"
                THEN /\ trace' = sofar
                     /\ pc' = "panic"
                     /\ UNCHANGED <<name_username, username_name>>
                ELSE IF m.err # "nil"
                THEN /\ trace' = Append(sofar, Println(m.err))
                     /\ pc' = "done"
                     /\ UNCHANGED <<name_username, username_name>>
                ELSE /\ name_username' = m.name_username
                     /\ username_name' = m.username_name
                     /\ IF missing \in SetupAfterRoster
                        THEN /\ trace' = Append(sofar, Println(missing))
                             /\ pc' = "done"
                        ELSE /\ trace' = sofar
                             /\ pc' = IF flags.a THEN "OrgRepos" ELSE "SingleStudent"

-----------------------------------------------------------------------------
\* OrgRepos, called by AllStudents: one request per step.

\* the page assigned instead of appended
AccumulateOverwrite(all, page) == page

\* allRepos = append(allRepos, repos...)
Accumulate(all, page) == all \o page

\* what OrgRepos returns beside the error when a request fails
PartialOnError(all) == all

ListByOrg(page, ok) ==
    [NoEvent EXCEPT !.op = "ListByOrg", !.org = OrgName, !.page = page, !.ok = ok]

OrgRepos ==
    /\ pc = "OrgRepos"
    /\ UNCHANGED <<flags, goos, roster, srv, name_username, username_name, sess, call, out>>
    /\ \E fail \in BOOLEAN :
        IF fail
        THEN /\ allRepos' = PartialOnError(allRepos)
             /\ orgErr' = "DirectoryAccessError"
             /\ err' = "DirectoryAccessError"
             /\ trace' = trace \o <<ListByOrg(optPage, FALSE)>> \o PrintErr("DirectoryAccessError")
             /\ pc' = "done"
             /\ UNCHANGED <<optPage, repos, idx>>
        ELSE /\ allRepos' = Accumulate(allRepos, [i \in 1..Len(PageRepos(optPage)) |->
                                                      Repository(PageRepos(optPage)[i])])
             /\ trace' = Append(trace, ListByOrg(optPage, TRUE))
             /\ UNCHANGED <<orgErr, err>>
             /\ IF NextPage(optPage) = 0
                THEN /\ repos' = FilterReposByPref(allRepos', flags.p)
                     /\ idx' = 1
                     /\ pc' = "AllStudents"
                     /\ UNCHANGED optPage
                ELSE /\ optPage' = NextPage(optPage)
                     /\ UNCHANGED <<pc, repos, idx>>

-----------------------------------------------------------------------------
\* One session (HandleRepo) and the two flows that run sessions.

\* the Go map lookup: the zero value when the key is absent
Lookup(m, k) == IF k \in DOMAIN m THEN m[k] ELSE Empty

\* skip-and-continue: AllStudents goes on after a failed session
AfterSessionSkip(e) ==
    IF ~flags.a THEN [pc |-> "done", err |-> e, idx |-> idx]
    ELSE IF e = "nil" /\ ~flags.f THEN [pc |-> "Pacing", err |-> "nil", idx |-> idx]
    ELSE [pc |-> "AllStudents", err |-> "nil", idx |-> idx + 1]

\* the pacing condition inverted: pacing when feedback is enabled
AfterSessionPaceInverted(e) ==
    IF e # "nil" THEN [pc |-> "done", err |-> e, idx |-> idx]
    ELSE IF ~flags.a THEN [pc |-> "done", err |-> "nil", idx |-> idx]
    ELSE IF flags.f THEN [pc |-> "Pacing", err |-> "nil", idx |-> idx]
    ELSE [pc |-> "AllStudents", err |-> "nil", idx |-> idx + 1]

\* the loop index advanced twice after a session
AfterSessionSkipsOne(e) ==
    IF e # "nil" THEN [pc |-> "done", err |-> e, idx |-> idx]
    ELSE IF ~flags.a THEN [pc |-> "done", err |-> "nil", idx |-> idx]
    ELSE IF ~flags.f THEN [pc |-> "Pacing", err |-> "nil", idx |-> idx]
    ELSE [pc |-> "AllStudents", err |-> "nil", idx |-> idx + 2]

\* where a session's result e takes the run: SingleStudent returns it; AllStudents
\* returns an error, and otherwise paces (feedback disabled) or takes the next repository
AfterSession(e) ==
    IF e # "nil" THEN [pc |-> "done", err |-> e, idx |-> idx]
    ELSE IF ~flags.a THEN [pc |-> "done", err |-> "nil", idx |-> idx]
    ELSE IF ~flags.f THEN [pc |-> "Pacing", err |-> "nil", idx |-> idx]
    ELSE [pc |-> "AllStudents", err |-> "nil", idx |-> idx + 1]

\* the session returns e, after the interactions evs
SessionReturns(e, evs) ==
    /\ pc' = AfterSession(e).pc
    /\ err' = AfterSession(e).err
    /\ idx' = AfterSession(e).idx
    /\ trace' = trace \o evs \o (IF AfterSession(e).pc = "done" THEN PrintErr(e) ELSE << >>)

\* the head of AllStudents' range loop
AllStudents ==
    /\ pc = "AllStudents"
    /\ UNCHANGED <<flags, goos, roster, srv, name_username, username_name, allRepos,
                   optPage, orgErr, repos, idx, trace, call, out>>
    /\ IF idx > Len(repos)
       THEN /\ pc' = "done"
            /\ err' = "nil"
            /\ UNCHANGED sess
       ELSE /\ sess' = [repo |-> repos[idx],
                        username |-> UsernameFromRepo(repos[idx], flags.p),
                        name |-> Lookup(username_name, UsernameFromRepo(repos[idx], flags.p)),
                        fback |-> Empty]
            /\ pc' = "HandleRepo"
            /\ UNCHANGED err

GetRepo(rname, ok) ==
    [NoEvent EXCEPT !.op = "Get", !.org = OrgName, !.repo = rname, !.ok = ok]

\* both lookups treated as fatal
UsernameUnresolvedStrict(fl, name) ==
    \/ fl.u = Empty /\ name \notin DOMAIN name_username
    \/ fl.n = Empty /\ fl.u \notin DOMAIN username_name

\* SingleStudent: the username is looked up only when -u is absent; a miss is an error
UsernameUnresolved(fl, name) == fl.u = Empty /\ name \notin DOMAIN name_username

\* SingleStudent up to the call of HandleRepo
SingleStudent ==
    /\ pc = "SingleStudent"
    /\ UNCHANGED <<flags, goos, roster, srv, name_username, username_name, allRepos,
                   optPage, orgErr, repos, idx, call, out>>
    /\ LET name == IF flags.n = Empty THEN Lookup(username_name, flags.u) ELSE flags.n
           note == IF flags.n = Empty /\ flags.u \notin DOMAIN username_name
                   THEN <<Println("Note that username not found in csv. Trying to proceed w/o...")>>
                   ELSE << >>
           username == IF flags.u = Empty THEN Lookup(name_username, name) ELSE flags.u
           rname == RepoNameByPrefixAndUser(flags.p, username)
           exists == \E i \in 1..Len(srv.repos) : srv.repos[i] = rname
       IN  IF UsernameUnresolved(flags, name)
           THEN /\ err' = "IdentityResolutionError"
                /\ trace' = trace \o note \o PrintErr("IdentityResolutionError")
                /\ pc' = "done"
                /\ UNCHANGED sess
           ELSE \E e \in (IF exists THEN {"nil", "DirectoryAccessError"}
                          ELSE {"RepositoryNotFoundError", "DirectoryAccessError"}) :
                IF e # "nil"
                THEN /\ err' = e
                     /\ trace' = trace \o note \o <<GetRepo(rname, FALSE)>> \o PrintErr(e)
                     /\ pc' = "done"
                     /\ UNCHANGED sess
                ELSE /\ sess' = [repo |-> Repository(rname), username |-> username,
                                 name |-> name, fback |-> Empty]
                     /\ trace' = trace \o note \o <<GetRepo(rname, TRUE)>>
                     /\ pc' = "HandleRepo"
                     /\ UNCHANGED err

\* what exec.Command(...).Start() can do on this operating system
Launches == IF goos \in BrowserGOOS THEN {"started", "failed"} ELSE {"no case"}

\* the launch error dropped
StartBrowserNoError(launch) == "nil"

\* StartBrowser's result
StartBrowser(launch) == IF launch = "failed" THEN "BrowserLaunchError" ELSE "nil"

BrowserEvent(url, launch) ==
    [NoEvent EXCEPT !.op = "StartBrowser", !.repo = url, !.ok = (launch # "failed"),
                    !.msg = launch]

\* HandleRepo up to the feedback: the sentinel name, the browser
HandleRepo ==
    /\ pc = "HandleRepo"
    /\ UNCHANGED <<flags, goos, roster, srv, name_username, username_name, allRepos,
                   optPage, orgErr, repos, call, out>>
    /\ LET note == IF sess.name = Empty
                   THEN <<Println("Note that username not found in CSV.")>>
                   ELSE << >>
       IN  /\ sess' = [sess EXCEPT !.name = IF @ = Empty THEN NameNotFound ELSE @]
           /\ \E launch \in Launches :
               LET ev == note \o <<BrowserEvent(RepoUrl(sess.repo), launch)>>
               IN  IF StartBrowser(launch) # "nil"
                   THEN SessionReturns(StartBrowser(launch), ev)
                   ELSE IF flags.f
                   THEN /\ trace' = trace \o ev
                        /\ pc' = "HandleIssueFeedback"
                        /\ UNCHANGED <<err, idx>>
                   ELSE SessionReturns("nil", ev)

ReadEvent(what, r) ==
    [NoEvent EXCEPT !.op = "GatherInput", !.msg = what, !.body = r.line, !.ok = ~r.err]

\* the check for empty feedback left out
NoFeedbackUnchecked(fback) == FALSE

\* HandleIssueFeedback: fback == "" gives up without posting
NoFeedback(fback) == fback = Empty

\* HandleIssueFeedback up to the call of PostIssue
HandleIssueFeedback ==
    /\ pc = "HandleIssueFeedback"
    /\ UNCHANGED <<flags, goos, roster, srv, name_username, username_name, allRepos,
                   optPage, orgErr, repos, call, out>>
    /\ \E r \in ReadOutcomes :
        LET ev == <<Println("Enter any feedback for student:"), ReadEvent("feedback", r)>>
            in == GatherInput(r)
        IN  IF in.err # "nil"
            THEN /\ SessionReturns(in.err, ev)
                 /\ UNCHANGED sess
            ELSE IF NoFeedback(in.in)
            THEN /\ SessionReturns("nil", ev)
                 /\ UNCHANGED sess
            ELSE /\ sess' = [sess EXCEPT !.fback = in.in]
                 /\ trace' = trace \o ev
                 /\ pc' = "PostIssue"
                 /\ UNCHANGED <<err, idx>>

\* title and body taken from each other's field
CreateIssueSwapped(opts, ok) ==
    [NoEvent EXCEPT !.op = "Create", !.org = opts.OrgName, !.repo = opts.RepoName,
                    !.title = opts.Body, !.body = opts.Header, !.ok = ok]

CreateIssue(opts, ok) ==
    [NoEvent EXCEPT !.op = "Create", !.org = opts.OrgName, !.repo = opts.RepoName,
                    !.title = opts.Header, !.body = opts.Body, !.ok = ok]

LogLine(name, username, fback) ==
    [NoEvent EXCEPT !.op = "Log", !.name = name, !.username = username, !.body = fback]

\* the log written before the error is looked at
WritesLogBeforeCheck(fback, e) == fback # Empty

\* HandleRepo: the log line is written when HandleIssueFeedback returned (fback, e)
WritesLog(fback, e) == e = "nil" /\ fback # Empty

\* PostIssue, and HandleRepo's log write after HandleIssueFeedback returned
PostIssue ==
    /\ pc = "PostIssue"
    /\ UNCHANGED <<flags, goos, roster, srv, name_username, username_name, allRepos,
                   optPage, orgErr, repos, sess, call, out>>
    /\ \E e \in {"nil", "DirectoryAccessError"} :
        LET issueopts == [OrgName |-> OrgName, RepoName |-> sess.repo.Name,
                          Header |-> Header, Body |-> sess.fback]
            log == IF WritesLog(sess.fback, e)
                   THEN <<LogLine(sess.name, sess.username, sess.fback)>>
                   ELSE << >>
        IN  SessionReturns(e, <<CreateIssue(issueopts, e = "nil")>> \o log)

\* AllStudents: "Press enter to continue"
Pacing ==
    /\ pc = "Pacing"
    /\ UNCHANGED <<flags, goos, roster, srv, name_username, username_name, allRepos,
                   optPage, orgErr, repos, sess, call, out>>
    /\ \E r \in ReadOutcomes :
        LET ev == <<Println("Press enter to continue"), ReadEvent("pacing", r)>>
            in == GatherInput(r)
        IN  IF in.err # "nil"
            THEN /\ pc' = "done"
                 /\ err' = in.err
                 /\ trace' = trace \o ev \o PrintErr(in.err)
                 /\ UNCHANGED idx
            ELSE /\ pc' = "AllStudents"
                 /\ idx' = idx + 1
                 /\ trace' = trace \o ev
                 /\ UNCHANGED err

Next ==
    \/ Main
    \/ OrgRepos
    \/ AllStudents
    \/ SingleStudent
    \/ HandleRepo
    \/ HandleIssueFeedback
    \/ PostIssue
    \/ Pacing

Spec == Init /\ [][Next]_vars

-----------------------------------------------------------------------------
\* Properties of a run.

NetworkOps == {"ListByOrg", "Get", "Create"}

Events(ops) == {i \in 1..Len(trace) : trace[i].op \in ops}

\* the session an event belongs to: the number of browser launches up to it
SessionOf(i) == Cardinality({j \in 1..i : trace[j].op = "StartBrowser"})

\* a line as the grader typed it, without its terminator
Typed(line) == SubSeq(line, 1, Len(line) - 1)

C2_NoPrefixNoNetwork ==
    flags.p = Empty =>
        /\ Events(NetworkOps \cup {"StartBrowser"}) = {}
        /\ pc # "main" => Events({"Print"}) # {}

\* C3: when the feedback typed is empty, no issue is created and no log line is
\* written in that session, and the session ends without error.
EmptyFeedbackAt(i) ==
    /\ trace[i].op = "GatherInput" /\ trace[i].msg = "feedback" /\ trace[i].ok
    /\ Typed(trace[i].body) = Empty

C3_EmptyFeedbackNoIssue ==
    \A i \in 1..Len(trace) :
        EmptyFeedbackAt(i) =>
            /\ \A j \in 1..Len(trace) :
                   SessionOf(j) = SessionOf(i) => trace[j].op \notin {"Create", "Log"}
            /\ i = Len(trace) => /\ err = "nil"
                                 /\ pc \in IF flags.a THEN {"AllStudents", "HandleRepo", "done"}
                                           ELSE {"done"}

C3_Witness ==
    /\ pc = "done" /\ err = "nil"
    /\ \E i \in 1..Len(trace) : EmptyFeedbackAt(i)
    /\ Events({"Create"}) # {}

\* C4: a log line is written only right after the issue of the same session was
\* created successfully, with its text; when issue creation fails the run ends
\* with that error and the session has no log line.
C4_LogOnlyAfterIssue ==
    /\ \A i \in Events({"Log"}) :
           /\ i > 1
           /\ trace[i - 1].op = "Create" /\ trace[i - 1].ok
           /\ trace[i - 1].body = trace[i].body
    /\ \A i \in Events({"Create"}) :
           ~trace[i].ok =>
               /\ pc = "done" /\ err = "DirectoryAccessError"
               /\ \A j \in Events({"Log"}) : SessionOf(j) # SessionOf(i)

C4_Witness ==
    /\ pc = "done"
    /\ Events({"Log"}) # {}
    /\ \E i \in Events({"Create"}) : ~trace[i].ok

\* C5: when the browser launch fails, the run ends with that error and nothing
\* follows in the session: no prompt, no read, no issue, no log line.
C5_BrowserFailureIsFatal ==
    \A i \in Events({"StartBrowser"}) :
        ~trace[i].ok =>
            /\ pc = "done" /\ err = "BrowserLaunchError"
            /\ i = Len(trace) - 1
            /\ trace[i + 1] = Println("BrowserLaunchError")

C5_Witness ==
    /\ flags.f
    /\ \E i \in Events({"StartBrowser"}) : ~trace[i].ok

\* C6: in All-Students mode the first error of a session or of a pacing read ends
\* the run: the run returns that error and no browser launch, prompt, read or
\* issue follows it.
ErrorOf(e) ==
    IF e.op = "StartBrowser" THEN "BrowserLaunchError"
    ELSE IF e.op = "GatherInput" THEN "InputError"
    ELSE "DirectoryAccessError"

C6_AllStudentsAbortsOnFirstError ==
    flags.a =>
        \A i \in Events({"StartBrowser", "GatherInput", "Create"}) :
            ~trace[i].ok =>
                /\ pc = "done" /\ err = ErrorOf(trace[i])
                /\ i = Len(trace) - 1
                /\ trace[i + 1] = Println(err)

\* an error in a session that is not the last repository's
C6_Witness ==
    /\ flags.a /\ pc = "done" /\ err # "nil"
    /\ idx < Len(repos)
    /\ Events({"StartBrowser"}) # {}

\* C7: in All-Students mode with feedback disabled the browser launches and the
\* pacing reads alternate, the k-th launch being on the k-th repository of the
\* filtered list, and a run that ends without error has read once per
\* repository; with feedback enabled, and in Single-Student mode, nothing is
\* read for pacing.
RECURSIVE Only(_, _)
\* the events of s with an op of ops, in order
Only(s, ops) ==
    IF s = << >> THEN << >>
    ELSE IF s[1].op \in ops THEN <<s[1]>> \o Only(Tail(s), ops)
    ELSE Only(Tail(s), ops)

IsPacingRead(e) == e.op = "GatherInput" /\ e.msg = "pacing"

C7_OnePacingReadPerRepo ==
    LET steps == Only(trace, {"StartBrowser", "GatherInput"})
    IN  IF flags.a /\ ~flags.f
        THEN /\ \A k \in 1..Len(steps) :
                    IF k % 2 = 1
                    THEN /\ steps[k].op = "StartBrowser"
                         /\ (k + 1) \div 2 <= Len(repos)
                         /\ steps[k].repo = RepoUrl(repos[(k + 1) \div 2])
                    ELSE IsPacingRead(steps[k])
             /\ (pc = "done" /\ err = "nil" /\ Events({"ListByOrg"}) # {})
                    => Len(steps) = 2 * Len(repos)
        ELSE \A k \in 1..Len(steps) : ~IsPacingRead(steps[k])

C7_Witness ==
    /\ flags.a /\ ~flags.f
    /\ pc = "done" /\ err = "nil"
    /\ Len(repos) >= 2
    /\ Len(Only(trace, {"GatherInput"})) = Len(repos)

\* C9: OrgRepos asks for the first page and then for the page each answer names
\* as next, never after an answer that names none; what it returns is the
\* concatenation, in order, of the pages it was given: the whole listing when no
\* request failed, the pages before the failed request (with the error) otherwise.
RECURSIVE PagesGiven(_)
PagesGiven(reqs) ==
    IF reqs = << >> THEN << >>
    ELSE IF reqs[1].ok
    THEN [i \in 1..Len(PageRepos(reqs[1].page)) |-> Repository(PageRepos(reqs[1].page)[i])]
         \o PagesGiven(Tail(reqs))
    ELSE PagesGiven(Tail(reqs))

C9_OrgReposPaging ==
    LET reqs == Only(trace, {"ListByOrg"})
        whole == [i \in 1..Len(srv.repos) |-> Repository(srv.repos[i])]
    IN  /\ \A k \in 1..Len(reqs) :
               /\ k = 1 => reqs[k].page = 0
               /\ k > 1 => /\ reqs[k - 1].ok
                           /\ NextPage(reqs[k - 1].page) # 0
                           /\ reqs[k].page = NextPage(reqs[k - 1].page)
        /\ allRepos = PagesGiven(reqs)
        /\ orgErr = "nil" <=> \A k \in 1..Len(reqs) : reqs[k].ok
        /\ (pc \notin {"main", "OrgRepos"} /\ flags.a /\ reqs # << >>) =>
               IF orgErr = "nil"
               THEN allRepos = whole /\ Len(reqs) = NumPages
               ELSE /\ ~reqs[Len(reqs)].ok
                    /\ allRepos = SubSeq(whole, 1, (Len(reqs) - 1) * PageSize)

\* three pages, the third request failing
C9_Witness ==
    /\ pc = "done" /\ orgErr # "nil"
    /\ Len(Only(trace, {"ListByOrg"})) = 3
    /\ Len(allRepos) = 2

-----------------------------------------------------------------------------
\* The pure functions applied on their own: Init draws the arguments, one
\* action applies the function.

\* no run is under way
NoRun ==
    /\ flags = [p |-> Empty, n |-> Empty, u |-> Empty, f |-> FALSE, a |-> FALSE]
    /\ goos = "linux"
    /\ roster = << >>
    /\ srv = [repos |-> << >>, pageSize |-> 1]
    /\ name_username = EmptyMap
    /\ username_name = EmptyMap
    /\ allRepos = << >>
    /\ optPage = 0
    /\ orgErr = "nil"
    /\ repos = << >>
    /\ idx = 0
    /\ sess = NoSession
    /\ trace = << >>
    /\ err = "nil"

InitNaming ==
    /\ NoRun
    /\ pc = "UsernameFromRepo"
    /\ call \in [pref : StringsUpTo(MaxPrefix), name : StringsUpTo(MaxLen)]
    /\ out = << >>

\* UsernameFromRepo has one result, a string: it reports no error
ApplyUsernameFromRepo ==
    /\ pc = "UsernameFromRepo"
    /\ out' = [username |-> UsernameFromRepo(Repository(call.name), call.pref), err |-> "nil"]
    /\ pc' = "UsernameFromRepo returned"
    /\ UNCHANGED <<flags, goos, roster, srv, name_username, username_name, allRepos,
                   optPage, orgErr, repos, idx, sess, trace, err, call>>

NextNaming == ApplyUsernameFromRepo

SpecNaming == InitNaming /\ [][NextNaming]_vars

\* C8: recovering the username from a repository name that does not start with
\* the prefix fails with a naming-mismatch error.
C8_NamingMismatchIsAnError ==
    (pc = "UsernameFromRepo returned" /\ ~HasPrefix(call.name, call.pref))
        => out.err = "NamingMismatchError"

FilterNames == {<<"h", "-", "a">>, <<"a", "h", "-">>, <<"a">>, <<"h">>}
FilterPrefixes == {Empty, <<"h", "-">>, <<"a">>}

InitFilter ==
    /\ NoRun
    /\ pc = "FilterReposByPref"
    /\ call \in [repos : ListsUpTo(FilterNames, MaxList), pref : FilterPrefixes]
    /\ out = << >>

ApplyFilterReposByPref ==
    /\ pc = "FilterReposByPref"
    /\ out' = FilterReposByPref([i \in 1..Len(call.repos) |-> Repository(call.repos[i])],
                                call.pref)
    /\ pc' = "FilterReposByPref returned"
    /\ UNCHANGED <<flags, goos, roster, srv, name_username, username_name, allRepos,
                   optPage, orgErr, repos, idx, sess, trace, err, call>>

NextFilter == ApplyFilterReposByPref

SpecFilter == InitFilter /\ [][NextFilter]_vars

\* sub occurs in s at some position
Occurs(s, sub) == \E a \in 0..Len(s) : a + Len(sub) <= Len(s) /\ SubSeq(s, a + 1, a + Len(sub)) = sub

\* C10: the filter returns the repositories whose name contains the prefix
\* somewhere, each once per occurrence in the input and in the input's order:
\* the k-th result is the input's k-th repository with such a name.
C10_FilterKeepsExactlyContaining ==
    pc = "FilterReposByPref returned" =>
        LET kept == {i \in 1..Len(call.repos) : Occurs(call.repos[i], call.pref)}
            kth(k) == CHOOSE i \in kept : Cardinality({j \in kept : j <= i}) = k
        IN  /\ Len(out) = Cardinality(kept)
            /\ \A k \in 1..Len(out) : out[k] = Repository(call.repos[kth(k)])

\* one repository dropped, one kept twice, one kept with the prefix inside its name
C10_Witness ==
    /\ pc = "FilterReposByPref returned"
    /\ call.pref = <<"h", "-">>
    /\ call.repos = <<<<"a", "h", "-">>, <<"a">>, <<"a", "h", "-">>>>
    /\ Len(out) = 2

-----------------------------------------------------------------------------
\* Single-Student mode.

SessionOps == {"Get", "StartBrowser", "GatherInput", "Create", "Log"}

\* C11: in Single-Student mode a name without a username in the roster ends the
\* run with an identity-resolution error before any repository is fetched; a
\* username without a name in the roster is not an error: the repository
\* prefix+username is fetched and, when the fetch succeeds, its one session runs
\* under the name "[NAME NOT FOUND]".
C11_FromSingleStudent ==
    pc = "SingleStudent" =>
        /\ (flags.n # Empty /\ flags.u = Empty /\ flags.n \notin DOMAIN name_username) =>
               /\ pc' = "done" /\ err' = "IdentityResolutionError"
               /\ \A i \in 1..Len(trace') : trace'[i].op \notin SessionOps
        /\ (flags.u # Empty /\ flags.u \notin DOMAIN username_name) =>
               /\ err' # "IdentityResolutionError"
               /\ \E i \in 1..Len(trace') :
                      /\ trace'[i].op = "Get"
                      /\ trace'[i].repo = flags.p \o flags.u
                      /\ trace'[i].ok <=> pc' = "HandleRepo"
               /\ pc' = "HandleRepo" => sess'.repo.Name = flags.p \o flags.u

C11_InSession ==
    (~flags.a /\ flags.u # Empty /\ flags.u \notin DOMAIN username_name) =>
        /\ Cardinality(Events({"StartBrowser"})) <= 1
        /\ Events({"StartBrowser"}) # {} =>
               /\ sess.name = <<"[NAME NOT FOUND]">>
               /\ sess.username = flags.u
               /\ trace[CHOOSE i \in Events({"StartBrowser"}) : TRUE].repo
                      = RepoUrl(Repository(flags.p \o flags.u))
        /\ pc = "HandleRepo" => Events({"StartBrowser"}) = {}
        /\ \A i \in Events({"Log"}) : trace[i].name = <<"[NAME NOT FOUND]">>

C11_NameFatalUsernameSoft == [][C11_FromSingleStudent]_vars /\ []C11_InSession

\* feedback logged for a username the roster does not hold
C11_Witness ==
    /\ ~flags.a /\ flags.u # Empty /\ flags.u \notin DOMAIN username_name
    /\ pc = "done" /\ err = "nil"
    /\ Events({"Log"}) # {}

\* C12: in Single-Student mode a run given neither -n nor -u ends in failure
\* and fetches no repository, opens no browser and creates no issue, whatever
\* the roster holds (stated for runs that were given a prefix).
C12_NeitherGivenFails ==
    (~flags.a /\ flags.p # Empty /\ flags.n = Empty /\ flags.u = Empty) =>
        /\ Events({"Get", "StartBrowser", "Create"}) = {}
        /\ pc \notin {"HandleRepo", "HandleIssueFeedback", "PostIssue"}

-----------------------------------------------------------------------------
\* ReadUsernameMap applied on its own to the records of a CSV file.

RosterFields == {<<"A">>, <<"B">>, <<"a">>}

\* the records of at most n fields
RECURSIVE RowsUpTo(_)
RowsUpTo(n) ==
    IF n = 0 THEN {}
    ELSE IF n = 1 THEN {<<x>> : x \in RosterFields}
    ELSE RowsUpTo(n - 1) \cup
         {Append(r, x) : r \in {t \in RowsUpTo(n - 1) : Len(t) = n - 1}, x \in RosterFields}

InitRoster ==
    /\ NoRun
    /\ pc = "ReadUsernameMap"
    /\ call \in [rows : ListsUpTo(RowsUpTo(MaxFields), MaxRows)]
    /\ out = << >>

ApplyReadUsernameMap ==
    /\ pc = "ReadUsernameMap"
    /\ out' = ReadUsernameMap(call.rows)
    /\ pc' = "ReadUsernameMap returned"
    /\ UNCHANGED <<flags, goos, roster, srv, name_username, username_name, allRepos,
                   optPage, orgErr, repos, idx, sess, trace, err, call>>

NextRoster == ApplyReadUsernameMap

SpecRoster == InitRoster /\ [][NextRoster]_vars

UniqueField(rows, f) == \A i, j \in 1..Len(rows) : rows[i][f] = rows[j][f] => i = j

\* C13: when a roster with unique names and unique usernames is loaded, the two
\* maps have one entry per row, map each row's name to its username and back,
\* and are inverse to each other.
C13_MapsAreInverse ==
    (/\ pc = "ReadUsernameMap returned"
     /\ out.err = "nil"
     /\ UniqueField(call.rows, 1) /\ UniqueField(call.rows, 2)) =>
        LET nu == out.name_username
            un == out.username_name
        IN  /\ DOMAIN nu = {call.rows[i][1] : i \in 1..Len(call.rows)}
            /\ DOMAIN un = {call.rows[i][2] : i \in 1..Len(call.rows)}
            /\ Cardinality(DOMAIN nu) = Len(call.rows)
            /\ Cardinality(DOMAIN un) = Len(call.rows)
            /\ \A n \in DOMAIN nu : nu[n] \in DOMAIN un /\ un[nu[n]] = n
            /\ \A u \in DOMAIN un : un[u] \in DOMAIN nu /\ nu[un[u]] = u

\* two students, the username of one being the name of the other
C13_Witness ==
    /\ pc = "ReadUsernameMap returned"
    /\ out.err = "nil"
    /\ call.rows = <<<<<<"A">>, <<"a">>>>, <<<<"B">>, <<"A">>>>>>
    /\ out.username_name[<<"A">>] = <<"B">>

\* C14: loading a roster with a row of fewer than two fields returns a
\* roster-format error (an error value, no crash) and no maps, whichever row it is.
C14_ShortRowIsAnError ==
    (/\ pc = "ReadUsernameMap returned"
     /\ \E i \in 1..Len(call.rows) : Len(call.rows[i]) < 2) =>
        /\ out.err \notin {"nil", "panic"}
        /\ out.name_username = EmptyMap /\ out.username_name = EmptyMap

-----------------------------------------------------------------------------
\* The naming round trip: RepoNameByPrefixAndUser, then UsernameFromRepo.

InitRoundTrip ==
    /\ NoRun
    /\ pc = "RepoNameByPrefixAndUser"
    /\ call \in [pref : StringsUpTo(MaxPrefix), user : StringsUpTo(MaxLen)]
    /\ out = << >>

ApplyRepoNameByPrefixAndUser ==
    /\ pc = "RepoNameByPrefixAndUser"
    /\ out' = [name |-> RepoNameByPrefixAndUser(call.pref, call.user), username |-> Empty]
    /\ pc' = "UsernameFromRepo of the name"
    /\ UNCHANGED <<flags, goos, roster, srv, name_username, username_name, allRepos,
                   optPage, orgErr, repos, idx, sess, trace, err, call>>

ApplyUsernameFromRepoName ==
    /\ pc = "UsernameFromRepo of the name"
    /\ out' = [out EXCEPT !.username = UsernameFromRepo(Repository(out.name), call.pref)]
    /\ pc' = "round trip returned"
    /\ UNCHANGED <<flags, goos, roster, srv, name_username, username_name, allRepos,
                   optPage, orgErr, repos, idx, sess, trace, err, call>>

NextRoundTrip ==
    \/ ApplyRepoNameByPrefixAndUser
    \/ ApplyUsernameFromRepoName

SpecRoundTrip == InitRoundTrip /\ [][NextRoundTrip]_vars

\* C15: the username recovered from the repository name built from a prefix and
\* a username is that username, for every prefix and username.
C15_NamingRoundTrip ==
    pc = "round trip returned" => out.username = call.user

\* a username that contains the prefix
C15_Witness ==
    /\ pc = "round trip returned"
    /\ call.pref = <<"h", "-">>
    /\ call.user = <<"a", "h", "-">>
    /\ out.name = <<"h", "-", "a", "h", "-">>
    /\ out.username = call.user

-----------------------------------------------------------------------------
\* Sessions of a run.

\* the events of session k with an op of ops
InSession(k, ops) == {i \in Events(ops) : SessionOf(i) = k}

\* session k has run to its end without error
Completed(k) ==
    IF flags.f
    THEN \E i \in InSession(k, {"GatherInput"}) :
             /\ trace[i].ok /\ trace[i].msg = "feedback"
             /\ Typed(trace[i].body) # Empty =>
                    /\ \E c \in InSession(k, {"Create"}) : c > i /\ trace[c].ok
                    /\ \E l \in InSession(k, {"Log"}) : l > i
    ELSE \E i \in InSession(k, {"GatherInput"}) : trace[i].ok /\ trace[i].msg = "pacing"

\* C16: in All-Students mode the listing is over before the first session; the
\* sessions are on the repositories of the listing whose name contains the
\* prefix, the k-th session on the k-th of them; a session reads, creates and
\* logs at most once, on its own repository, and has run to its end before the
\* next browser launch; a run that ends without error has had one session per
\* repository.
C16_OneSessionPerRepoInOrder ==
    (flags.a /\ Events({"ListByOrg"}) # {}) =>
        /\ \A i \in Events({"ListByOrg"}) : \A j \in Events(SessionOps) : i < j
        /\ (pc \notin {"main", "OrgRepos"} /\ orgErr = "nil") =>
               [i \in 1..Len(repos) |-> repos[i].Name]
                   = SelectSeq(srv.repos, LAMBDA n : Occurs(n, flags.p))
        /\ \A j \in Events({"StartBrowser"}) :
               /\ SessionOf(j) <= Len(repos)
               /\ trace[j].repo = RepoUrl(repos[SessionOf(j)])
               /\ SessionOf(j) > 1 => Completed(SessionOf(j) - 1)
        /\ \A j \in Events({"GatherInput", "Create", "Log"}) :
               /\ SessionOf(j) >= 1
               /\ trace[j].op = "Create" => trace[j].repo = repos[SessionOf(j)].Name
               /\ \A i \in InSession(SessionOf(j), {trace[j].op}) : i = j
        /\ (pc = "done" /\ err = "nil") =>
               /\ Cardinality(Events({"StartBrowser"})) = Len(repos)
               /\ \A k \in 1..Len(repos) : Completed(k)

\* three repositories, feedback posted on each
C16_Witness ==
    /\ flags.a /\ flags.f
    /\ pc = "done" /\ err = "nil"
    /\ Len(repos) = 3
    /\ Cardinality(Events({"Log"})) = 3

\* C17: there are as many log lines as successful issue creations; a session
\* creates at most one issue, under the configured organization, titled
\* "[FEEDBACK]", on the repository whose page the session's browser launch was
\* given, with the text typed in that session as body; a log line follows its
\* session's issue and carries the same text.
C17_IssuesAndLogLinesAgree ==
    /\ Cardinality(Events({"Log"})) = Cardinality({i \in Events({"Create"}) : trace[i].ok})
    /\ \A i \in Events({"Create"}) :
           /\ \A j \in InSession(SessionOf(i), {"Create"}) : j = i
           /\ trace[i].org = OrgName
           /\ trace[i].title = <<"[FEEDBACK]">>
           /\ \E b \in InSession(SessionOf(i), {"StartBrowser"}) :
                  /\ b < i
                  /\ trace[b].repo = RepoUrl(Repository(trace[i].repo))
           /\ i > 1
           /\ trace[i - 1].op = "GatherInput" /\ trace[i - 1].ok
           /\ trace[i].body = Typed(trace[i - 1].body)
    /\ \A l \in Events({"Log"}) :
           /\ l > 1
           /\ trace[l - 1].op = "Create" /\ trace[l - 1].ok
           /\ trace[l].body = trace[l - 1].body

\* one issue posted and logged, the next one refused by the server
C17_Witness ==
    /\ pc = "done"
    /\ Cardinality(Events({"Log"})) = 1
    /\ Cardinality(Events({"Create"})) = 2

====
